---- MODULE Spec2Model ----
(***************************************************************************)
(* A model of iptsd's core Application (core/generic/application.hpp):     *)
(* one parser feeding three handlers (heatmap, stylus, DFT), the heatmap   *)
(* normalisation, the palm pass driven by the touch rejection cone, and    *)
(* the sinks on_contacts / on_stylus; the daemon's DeviceManager           *)
(* (daemon/devices.cpp) with its touch and stylus devices; and the runner  *)
(* loop that feeds buffers to the parser (debug/calibrate.cpp).            *)
(*                                                                         *)
(* f64 values are modelled as exact rationals (records [n, d], d > 0, in   *)
(* lowest terms) extended with the IEEE-754 specials NaN, +Inf, -Inf that  *)
(* a division by zero produces; rounding error is not modelled.            *)
(***************************************************************************)
EXTENDS Integers, Naturals, Sequences, FiniteSets, TLC

VARIABLES
    m_config,    \* Config: width, height, touch_check_cone, cone_distance
    m_heatmap,   \* Image<f64>: rows, cols, and the cells in row-major order
    m_contacts,  \* std::vector<Contact<f64>>
    m_dft,       \* DftStylus: the stylus sample it currently holds
    m_cone,      \* Cone: alive, origin, direction, time since the last position
    pc,          \* "idle" | "parsing" | "returned" | "thrown": where process() is
    buf,         \* the kinds of the sub-frames of the buffer being processed
    pos,         \* the number of sub-frames of buf the parser has consumed
    cur,         \* the sub-frame the parser decoded last: [kind, data]
    calls,       \* the calls made by the handler of the last sub-frame, in order
    events,      \* the sink callbacks fired during this process() call, in order
    last_sample, \* the stylus sample of the last stylus or DFT sub-frame decoded
    threw,       \* an earlier process() call of this application threw
    dm,          \* the daemon's DeviceManager (daemon/devices.cpp)
    runner,      \* the runner loop of debug/calibrate.cpp: main()
    calib        \* the calibration samples of debug/calibrate.cpp

vars == <<m_config, m_heatmap, m_contacts, m_dft, m_cone, pc, buf, pos, cur,
          calls, events, last_sample, threw, dm, runner, calib>>

----------------------------------------------------------------------------
(* Bounds of the model. *)

\* The largest number of sub-frames in one buffer.
MaxFrames == 2

\* The largest number of contacts the finder returns for one frame.
MaxContacts == 2

\* Raw heatmap cells, z_min and z_max range over 0..MaxRaw (a u8 in the code).
MaxRaw == 2

----------------------------------------------------------------------------
(* Exact rational arithmetic for f64 values. *)

Abs(i) == IF i < 0 THEN -i ELSE i

RECURSIVE Gcd(_, _)
Gcd(a, b) == IF b = 0 THEN a ELSE Gcd(b, a % b)

\* The rational n/d (d # 0) in lowest terms with a positive denominator.
Rat(n, d) ==
    LET g == Gcd(Abs(n), Abs(d))
        s == IF d < 0 THEN -1 ELSE 1
    IN  [n |-> (s * n) \div g, d |-> (s * d) \div g]

RInt(i) == [n |-> i, d |-> 1]
RAdd(a, b) == Rat(a.n * b.d + b.n * a.d, a.d * b.d)
RSub(a, b) == Rat(a.n * b.d - b.n * a.d, a.d * b.d)
RMul(a, b) == Rat(a.n * b.n, a.d * b.d)
RDiv(a, b) == Rat(a.n * b.d, a.d * b.n)
RLeq(a, b) == a.n * b.d <= b.n * a.d
RLt(a, b) == a.n * b.d < b.n * a.d

\* An f64: a finite value, or one of the IEEE-754 specials.
FNum(r) == [c |-> "num", v |-> r]
FNaN == [c |-> "nan", v |-> RInt(0)]
FPosInf == [c |-> "+inf", v |-> RInt(0)]
FNegInf == [c |-> "-inf", v |-> RInt(0)]

\* a / b on f64: a division by zero gives NaN (0/0) or an infinity, as IEEE-754
\* arithmetic does on every build of the daemon.
FDiv(a, b) ==
    IF b.n # 0 THEN FNum(RDiv(a, b))
    ELSE IF a.n = 0 THEN FNaN
    ELSE IF a.n > 0 THEN FPosInf
    ELSE FNegInf

\* 1.0 - f on f64.
FOneMinus(f) ==
    CASE f.c = "num" -> FNum(RSub(RInt(1), f.v))
      [] f.c = "nan" -> FNaN
      [] f.c = "+inf" -> FNegInf
      [] f.c = "-inf" -> FPosInf

\* f > r on f64: every comparison with NaN is false.
FGt(f, r) ==
    CASE f.c = "num" -> RLt(r, f.v)
      [] f.c = "nan" -> FALSE
      [] f.c = "+inf" -> TRUE
      [] f.c = "-inf" -> FALSE

FIsZero(f) == f.c = "num" /\ f.v.n = 0
FInUnitRange(f) == f.c = "num" /\ RLeq(RInt(0), f.v) /\ RLeq(f.v, RInt(1))

----------------------------------------------------------------------------
(* Constants of the device and of the configuration. *)

\* The device coordinate range of the stylus (ipts.h).
IPTS_MAX_X == 9600
IPTS_MAX_Y == 7200

\* Config::cone_distance, in physical units.
ConeDistance == 3

\* The number of clock ticks after which a stylus position is stale.
StylusActiveTimeout == 2

\* ContactsConfig: the activation threshold of the blob detection.
ActivationThreshold == 0

\* The three values of Contact::valid, a std::optional<bool>.
Validity == {"null", "true", "false"}

\* std::optional<bool>::value_or(d)
value_or(v, d) == IF v = "null" THEN d ELSE v = "true"

BoolValidity(b) == IF b THEN "true" ELSE "false"

----------------------------------------------------------------------------
(* Inputs: what the device can send and what the finder can return. *)

\* The samples of the legacy stylus sub-frames.
StylusSamples ==
    { [x |-> 0, y |-> 0, inrange |-> TRUE],
      [x |-> 9600, y |-> 3600, inrange |-> TRUE] }

\* A DFT window, reduced to whether it carries enough signal and to the
\* position its interpolation yields.
DftWindows ==
    { [signal |-> TRUE, x |-> 4800, y |-> 7200],
      [signal |-> FALSE, x |-> 0, y |-> 0] }

\* All heatmap frames of the given size with z_min <= z_max.
HeatmapFrames(h, w) ==
    { [height |-> h, width |-> w, z_min |-> lo, z_max |-> hi, data |-> d] :
        lo \in 0..MaxRaw, hi \in 0..MaxRaw, d \in [1..(h * w) -> 0..MaxRaw] }

ValidHeatmapFrames(h, w) == { f \in HeatmapFrames(h, w) : f.z_min <= f.z_max }

\* One-cell frames: untouched (the cell is z_max) and touched (z_min).
UntouchedHeatmap ==
    [height |-> 1, width |-> 1, z_min |-> 0, z_max |-> 1, data |-> <<1>>]

TouchedHeatmap ==
    [height |-> 1, width |-> 1, z_min |-> 0, z_max |-> 1, data |-> <<0>>]

SmallHeatmaps == { UntouchedHeatmap, TouchedHeatmap }

\* The frames of the normalisation check: every range and every cell value.
WideHeatmaps == ValidHeatmapFrames(1, 2)

\* The centre (normalised grid coordinates) of the contact with tracking
\* index i: the middle of the i-th of MaxContacts vertical strips.
ContactMean(i) == <<Rat(2 * i - 1, 2 * MaxContacts), Rat(1, 2)>>

\* A contact with tracking index i and validity v.
Contact(i, v) ==
    [index |-> i, mean_x |-> ContactMean(i)[1], mean_y |-> ContactMean(i)[2],
     valid |-> v]

\* The contact lists of length n, in order of tracking index.
ContactLists(n) == { [i \in 1..n |-> Contact(i, v[i])] : v \in [1..n -> Validity] }

AllContactLists == UNION { ContactLists(n) : n \in 0..MaxContacts }

\* A palm followed by an unclassified contact, or nothing.
PalmAndFingerLists == { <<>>, <<Contact(1, "false"), Contact(2, "null")>> }

\* One unclassified contact, or nothing.
UnclassifiedLists == { <<>>, <<Contact(1, "null")>> }

\* The kinds of sub-frame a buffer holds; "bad" is one the parser rejects.
FrameKinds == {"stylus", "dft", "heatmap", "bad"}

Buffers == UNION { [1..n -> FrameKinds] : n \in 0..MaxFrames }

\* The buffers of the palm pass runs: one stylus or one heatmap sub-frame.
PalmBuffers == { <<"stylus">>, <<"heatmap">> }

----------------------------------------------------------------------------
(* The touch rejection cone (cone.hpp). *)

\* Cone::update_position: move the origin, mark alive, restart the clock.
cone_update_position(c, x, y) ==
    [c EXCEPT !.alive = TRUE, !.x = x, !.y = y, !.elapsed = 0]

\* Cone::update_direction: turn the cone towards the palm at (px, py). The
\* direction is kept unnormalised (the angle test does not depend on its
\* length) and the smoothing coefficient is 1: the newest palm wins.
cone_update_direction(c, px, py) ==
    LET vx == RSub(px, c.x)
        vy == RSub(py, c.y)
    IN  IF vx.n = 0 /\ vy.n = 0 THEN c
        ELSE [c EXCEPT !.dx = vx, !.dy = vy]

cone_alive(c) == c.alive

cone_active(c) == c.alive /\ c.elapsed < StylusActiveTimeout

\* Whether (x, y) lies inside the cone: within cone_distance of the origin
\* and at most cone_angle / 2 = pi / 4 off the direction.
cone_inside(c, x, y) ==
    LET ex == RSub(x, c.x)
        ey == RSub(y, c.y)
        dist2 == RAdd(RMul(ex, ex), RMul(ey, ey))
        dir2 == RAdd(RMul(c.dx, c.dx), RMul(c.dy, c.dy))
        dot == RAdd(RMul(ex, c.dx), RMul(ey, c.dy))
    IN  /\ RLeq(dist2, RInt(ConeDistance * ConeDistance))
        /\ RLeq(RInt(0), dot)
        /\ RLeq(RMul(dist2, dir2), RMul(RInt(2), RMul(dot, dot)))

\* Cone::check: TRUE accepts the point as a finger.
cone_check(c, x, y) ==
    IF c.dx.n = 0 /\ c.dy.n = 0 THEN TRUE
    ELSE ~(cone_inside(c, x, y) /\ c.elapsed < StylusActiveTimeout)

----------------------------------------------------------------------------
(* The DFT stylus estimator (dft.hpp). *)

\* DftStylus::input: a window with signal moves the stylus; one without
\* keeps the pose and clears the in-range button.
dft_input(d, w) ==
    IF w.signal THEN [x |-> w.x, y |-> w.y, inrange |-> TRUE]
    ELSE [d EXCEPT !.inrange = FALSE]

\* DftStylus::get_stylus
dft_get_stylus(d) == d

----------------------------------------------------------------------------
(* The contact finder (contacts/finder.hpp). *)

\* Finder::find: no cell above the activation threshold gives no contact;
\* otherwise the blobs found depend on the tracking state, which is left open:
\* any of the given lists.
finder_find(hm, lists) ==
    IF \E i \in 1..Len(hm.cells) : FGt(hm.cells[i], RInt(ActivationThreshold))
    THEN lists
    ELSE { <<>> }

----------------------------------------------------------------------------
(* The Application (core/generic/application.hpp). *)

\* One entry of the call log.
Call(op, x, y, arg) == [op |-> op, x |-> x, y |-> y, arg |-> arg]

\* Contact::mean scaled to physical coordinates.
ContactPhysX(contact, config) == RMul(contact.mean_x, RInt(config.width))
ContactPhysY(contact, config) == RMul(contact.mean_y, RInt(config.height))

\* Pass 1 with value_or(false) in its test: unclassified contacts feed the
\* direction as well.
RECURSIVE touch_cone_pass1_FeedsUnclassified(_, _, _, _)
touch_cone_pass1_FeedsUnclassified(cone, contacts, config, i) ==
    IF i > Len(contacts) THEN [cone |-> cone, calls |-> <<>>]
    ELSE IF value_or(contacts[i].valid, FALSE)
    THEN touch_cone_pass1_FeedsUnclassified(cone, contacts, config, i + 1)
    ELSE LET x == ContactPhysX(contacts[i], config)
             y == ContactPhysY(contacts[i], config)
             rest == touch_cone_pass1_FeedsUnclassified(
                         cone_update_direction(cone, x, y), contacts, config, i + 1)
         IN  [cone |-> rest.cone,
              calls |-> <<Call("update_direction", x, y, <<>>)>> \o rest.calls]

\* Pass 1 of update_touch_cone over contacts[i..]: every known-false contact
\* feeds the direction of the cone. The result is the cone and the calls made.
RECURSIVE touch_cone_pass1(_, _, _, _)
touch_cone_pass1(cone, contacts, config, i) ==
    IF i > Len(contacts) THEN [cone |-> cone, calls |-> <<>>]
    ELSE IF value_or(contacts[i].valid, TRUE)
    THEN touch_cone_pass1(cone, contacts, config, i + 1)
    ELSE LET x == ContactPhysX(contacts[i], config)
             y == ContactPhysY(contacts[i], config)
             rest == touch_cone_pass1(cone_update_direction(cone, x, y),
                                      contacts, config, i + 1)
         IN  [cone |-> rest.cone,
              calls |-> <<Call("update_direction", x, y, <<>>)>> \o rest.calls]

\* Pass 2 with value_or(false) in its test: unclassified contacts are skipped.
touch_cone_pass2_SkipsUnclassified(cone, contacts, config) ==
    [i \in 1..Len(contacts) |->
        IF ~value_or(contacts[i].valid, FALSE) THEN contacts[i]
        ELSE [contacts[i] EXCEPT !.valid =
                BoolValidity(cone_check(cone, ContactPhysX(contacts[i], config),
                                        ContactPhysY(contacts[i], config)))]]

\* Pass 2 of update_touch_cone: every contact not known to be a palm is set to
\* what the cone says about its position.
touch_cone_pass2(cone, contacts, config) ==
    [i \in 1..Len(contacts) |->
        IF ~value_or(contacts[i].valid, TRUE) THEN contacts[i]
        ELSE [contacts[i] EXCEPT !.valid =
                BoolValidity(cone_check(cone, ContactPhysX(contacts[i], config),
                                        ContactPhysY(contacts[i], config)))]]

\* The cone.check calls of pass 2, in order.
RECURSIVE touch_cone_pass2_calls(_, _, _, _)
touch_cone_pass2_calls(cone, contacts, config, i) ==
    IF i > Len(contacts) THEN <<>>
    ELSE IF ~value_or(contacts[i].valid, TRUE)
    THEN touch_cone_pass2_calls(cone, contacts, config, i + 1)
    ELSE <<Call("check", ContactPhysX(contacts[i], config),
                ContactPhysY(contacts[i], config), <<>>)>>
         \o touch_cone_pass2_calls(cone, contacts, config, i + 1)

\* The two passes folded into one loop over contacts[i..]: a palm feeds the
\* direction, any other contact is checked against the cone as it is then.
RECURSIVE touch_cone_single_pass(_, _, _, _)
touch_cone_single_pass(cone, contacts, config, i) ==
    IF i > Len(contacts)
    THEN [cone |-> cone, contacts |-> contacts, calls |-> <<>>]
    ELSE LET x == ContactPhysX(contacts[i], config)
             y == ContactPhysY(contacts[i], config)
         IN  IF ~value_or(contacts[i].valid, TRUE)
             THEN LET rest == touch_cone_single_pass(
                                  cone_update_direction(cone, x, y),
                                  contacts, config, i + 1)
                  IN  [rest EXCEPT !.calls =
                          <<Call("update_direction", x, y, <<>>)>> \o @]
             ELSE LET rest == touch_cone_single_pass(
                                  cone,
                                  [contacts EXCEPT ![i].valid =
                                      BoolValidity(cone_check(cone, x, y))],
                                  config, i + 1)
                  IN  [rest EXCEPT !.calls = <<Call("check", x, y, <<>>)>> \o @]

\* update_touch_cone with one loop in place of two.
update_touch_cone_SinglePass(cone, contacts, config) ==
    IF ~cone_alive(cone) THEN [cone |-> cone, contacts |-> contacts, calls |-> <<>>]
    ELSE IF ~cone_active(cone)
    THEN [cone |-> cone, contacts |-> contacts, calls |-> <<>>]
    ELSE IF ~config.touch_check_cone
    THEN [cone |-> cone, contacts |-> contacts, calls |-> <<>>]
    ELSE touch_cone_single_pass(cone, contacts, config, 1)

\* update_touch_cone without the touch_check_cone test.
update_touch_cone_NoConfigGate(cone, contacts, config) ==
    IF ~cone_alive(cone) THEN [cone |-> cone, contacts |-> contacts, calls |-> <<>>]
    ELSE IF ~cone_active(cone)
    THEN [cone |-> cone, contacts |-> contacts, calls |-> <<>>]
    ELSE LET p1 == touch_cone_pass1(cone, contacts, config, 1)
         IN  [cone |-> p1.cone,
              contacts |-> touch_cone_pass2(p1.cone, contacts, config),
              calls |-> p1.calls
                        \o touch_cone_pass2_calls(p1.cone, contacts, config, 1)]

\* Application::update_touch_cone
update_touch_cone(cone, contacts, config) ==
    IF ~cone_alive(cone) THEN [cone |-> cone, contacts |-> contacts, calls |-> <<>>]
    ELSE IF ~cone_active(cone)
    THEN [cone |-> cone, contacts |-> contacts, calls |-> <<>>]
    ELSE IF ~config.touch_check_cone
    THEN [cone |-> cone, contacts |-> contacts, calls |-> <<>>]
    ELSE LET p1 == touch_cone_pass1(cone, contacts, config, 1)
         IN  [cone |-> p1.cone,
              contacts |-> touch_cone_pass2(p1.cone, contacts, config),
              calls |-> p1.calls
                        \o touch_cone_pass2_calls(p1.cone, contacts, config, 1)]

\* The normalisation of process_heatmap: m_heatmap = 1.0 - (raw - z_min) /
\* (z_max - z_min), cell by cell.
normalize(data) ==
    [rows |-> data.height,
     cols |-> data.width,
     cells |-> [i \in 1..Len(data.data) |->
                  FOneMinus(FDiv(RSub(RInt(data.data[i]), RInt(data.z_min)),
                                 RSub(RInt(data.z_max), RInt(data.z_min))))]]

\* process_heatmap with the hand-off ahead of the palm pass.
process_heatmap_HandlerBeforePalmPass(data, found, cone, config) ==
    LET tc == update_touch_cone(cone, found, config)
    IN  [heatmap |-> normalize(data),
         contacts |-> tc.contacts,
         cone |-> tc.cone,
         calls |-> <<Call("normalize", RInt(0), RInt(0), <<data>>),
                     Call("find", RInt(0), RInt(0), found),
                     Call("on_contacts", RInt(0), RInt(0), found)>>
                   \o tc.calls]

\* Application::process_heatmap, given the list the finder returns.
process_heatmap(data, found, cone, config) ==
    LET tc == update_touch_cone(cone, found, config)
    IN  [heatmap |-> normalize(data),
         contacts |-> tc.contacts,
         cone |-> tc.cone,
         calls |-> <<Call("normalize", RInt(0), RInt(0), <<data>>),
                     Call("find", RInt(0), RInt(0), found)>>
                   \o tc.calls
                   \o <<Call("on_contacts", RInt(0), RInt(0), tc.contacts)>>]

\* process_stylus with the hand-off ahead of the cone update.
process_stylus_HandlerFirst(data, cone, config) ==
    LET x == RMul(RDiv(RInt(data.x), RInt(IPTS_MAX_X)), RInt(config.width))
        y == RMul(RDiv(RInt(data.y), RInt(IPTS_MAX_Y)), RInt(config.height))
    IN  [cone |-> cone_update_position(cone, x, y),
         calls |-> <<Call("on_stylus", RInt(0), RInt(0), <<data>>),
                     Call("update_position", x, y, <<>>)>>]

\* Application::process_stylus
process_stylus(data, cone, config) ==
    LET x == RMul(RDiv(RInt(data.x), RInt(IPTS_MAX_X)), RInt(config.width))
        y == RMul(RDiv(RInt(data.y), RInt(IPTS_MAX_Y)), RInt(config.height))
    IN  [cone |-> cone_update_position(cone, x, y),
         calls |-> <<Call("update_position", x, y, <<>>),
                     Call("on_stylus", RInt(0), RInt(0), <<data>>)>>]

\* process_dft that forwards the stylus only while it is in range.
process_dft_SkipsWithoutSignal(window, dft, cone, config) ==
    LET d == dft_input(dft, window)
        ps == process_stylus(dft_get_stylus(d), cone, config)
    IN  IF d.inrange
        THEN [dft |-> d,
              cone |-> ps.cone,
              calls |-> <<Call("dft_input", RInt(0), RInt(0), <<window>>)>>
                        \o ps.calls]
        ELSE [dft |-> d,
              cone |-> cone,
              calls |-> <<Call("dft_input", RInt(0), RInt(0), <<window>>)>>]

\* process_dft that hands the stylus to the sink without process_stylus.
process_dft_BypassesCone(window, dft, cone, config) ==
    LET d == dft_input(dft, window)
    IN  [dft |-> d,
         cone |-> cone,
         calls |-> <<Call("dft_input", RInt(0), RInt(0), <<window>>),
                     Call("on_stylus", RInt(0), RInt(0), <<dft_get_stylus(d)>>)>>]

\* Application::process_dft
process_dft(window, dft, cone, config) ==
    LET d == dft_input(dft, window)
        ps == process_stylus(dft_get_stylus(d), cone, config)
    IN  [dft |-> d,
         cone |-> ps.cone,
         calls |-> <<Call("dft_input", RInt(0), RInt(0), <<window>>)>> \o ps.calls]

\* process that catches what the parser throws.
process_SwallowsError(outcome) == "returned"

\* Application::process: what the caller sees of the parser's outcome; there
\* is no handler between the parser and the caller.
process(outcome) == outcome

\* The sink callbacks among the calls of one handler.
SinkOps == {"on_stylus", "on_contacts"}

RECURSIVE SinkEvents(_)
SinkEvents(cs) ==
    IF cs = <<>> THEN <<>>
    ELSE (IF Head(cs).op \in SinkOps THEN <<Head(cs).op>> ELSE <<>>)
         \o SinkEvents(Tail(cs))

----------------------------------------------------------------------------
(* The state machine. *)

\* The configurations an Application is constructed with (the screen size is
\* not zero: the constructor throws otherwise).
Configs ==
    { [width |-> 4, height |-> 2, touch_check_cone |-> b] : b \in BOOLEAN }

NoFrame == [kind |-> "none", data |-> <<>>]

\* The members of a new Application other than its configuration.
InitMembers ==
    /\ m_heatmap = [rows |-> 0, cols |-> 0, cells |-> <<>>]
    /\ m_contacts = <<>>
    /\ m_dft = [x |-> 0, y |-> 0, inrange |-> FALSE]
    /\ m_cone = [alive |-> FALSE, x |-> RInt(0), y |-> RInt(0),
                 dx |-> RInt(0), dy |-> RInt(0), elapsed |-> StylusActiveTimeout]
    /\ buf = <<>>
    /\ pos = 0
    /\ cur = NoFrame
    /\ calls = <<>>
    /\ events = <<>>
    /\ last_sample = [x |-> 0, y |-> 0, inrange |-> FALSE]
    /\ threw = FALSE

\* No DeviceManager has been constructed.
NoManager ==
    [state |-> "none", conf |-> [width |-> 0, height |-> 0], touch |-> <<>>,
     styli |-> <<>>, active_stylus |-> 0, created |-> 0, div_by_zero |-> FALSE,
     serial |-> 0, before |-> <<>>, before_active |-> 0, before_serial |-> 0,
     switches |-> 0]

\* The runner loop has not been entered.
NoRunner ==
    [pc |-> "none", errors |-> 0, should_exit |-> FALSE, mode_on |-> 0,
     mode_off |-> 0, last_call |-> "none", why |-> "none", last |-> "none",
     errors_before |-> 0, gap |-> FALSE, read_failed |-> FALSE,
     in_flight |-> FALSE]

\* No statistics have been computed.
NoStats ==
    [computed |-> FALSE, n |-> 0, min_idx |-> 0, max_idx |-> 0,
     size_avg |-> RInt(0), aspect_avg |-> RInt(0),
     size_min |-> RInt(0), size_max |-> RInt(0),
     aspect_min |-> RInt(0), aspect_max |-> RInt(0)]

\* The calibration tool before its first heatmap: size and aspect are empty.
NoSamples ==
    [size |-> <<>>, aspect |-> <<>>, heatmap |-> [rows |-> 0, cols |-> 0,
                                                   cells |-> <<>>],
     handled |-> FALSE, stable_seen |-> 0, stats |-> NoStats]

\* A constructed Application, ready for its first buffer.
Init ==
    /\ m_config \in Configs
    /\ pc = "idle"
    /\ InitMembers
    /\ dm = NoManager
    /\ runner = NoRunner
    /\ calib = NoSamples

\* The clock advances between two buffers.
Tick ==
    /\ pc = "idle"
    /\ m_cone.alive
    /\ m_cone.elapsed < StylusActiveTimeout
    /\ m_cone' = [m_cone EXCEPT !.elapsed = @ + 1]
    /\ UNCHANGED <<m_config, m_heatmap, m_contacts, m_dft, pc, buf, pos, cur,
                   calls, events, last_sample, threw>>
    /\ UNCHANGED <<dm, runner, calib>>

\* Application::process(data): the runner hands over a buffer.
Process(b) ==
    /\ pc = "idle"
    /\ pc' = "parsing"
    /\ buf' = b
    /\ pos' = 0
    /\ UNCHANGED <<m_config, m_heatmap, m_contacts, m_dft, m_cone, cur, calls,
                   events, last_sample, threw>>
    /\ UNCHANGED <<dm, runner, calib>>

\* The parser is about to decode a sub-frame of the given kind.
NextIs(kind) == pc = "parsing" /\ pos < Len(buf) /\ buf[pos + 1] = kind

\* m_parser.on_stylus: a stylus sub-frame goes to process_stylus.
OnStylus(samples) ==
    /\ NextIs("stylus")
    /\ \E data \in samples :
          LET r == process_stylus(data, m_cone, m_config)
          IN  /\ m_cone' = r.cone
              /\ calls' = r.calls
              /\ events' = events \o SinkEvents(r.calls)
              /\ cur' = [kind |-> "stylus", data |-> data]
              /\ last_sample' = data
    /\ pos' = pos + 1
    /\ UNCHANGED <<m_config, m_heatmap, m_contacts, m_dft, pc, buf, threw>>
    /\ UNCHANGED <<dm, runner, calib>>

\* m_parser.on_dft: a DFT window goes to process_dft.
OnDft ==
    /\ NextIs("dft")
    /\ \E window \in DftWindows :
          LET r == process_dft(window, m_dft, m_cone, m_config)
          IN  /\ m_dft' = r.dft
              /\ m_cone' = r.cone
              /\ calls' = r.calls
              /\ events' = events \o SinkEvents(r.calls)
              /\ cur' = [kind |-> "dft", data |-> window]
              /\ last_sample' = dft_get_stylus(dft_input(m_dft, window))
    /\ pos' = pos + 1
    /\ UNCHANGED <<m_config, m_heatmap, m_contacts, pc, buf, threw>>
    /\ UNCHANGED <<dm, runner, calib>>

\* m_parser.on_heatmap: a heatmap sub-frame, drawn from frames, goes to
\* process_heatmap; the finder returns one of lists.
OnHeatmap(frames, lists) ==
    /\ NextIs("heatmap")
    /\ \E data \in frames :
          \E found \in finder_find(normalize(data), lists) :
              LET r == process_heatmap(data, found, m_cone, m_config)
              IN  /\ m_heatmap' = r.heatmap
                  /\ m_contacts' = r.contacts
                  /\ m_cone' = r.cone
                  /\ calls' = r.calls
                  /\ events' = events \o SinkEvents(r.calls)
                  /\ cur' = [kind |-> "heatmap", data |-> data]
    /\ pos' = pos + 1
    /\ UNCHANGED <<m_config, m_dft, pc, buf, last_sample, threw>>
    /\ UNCHANGED <<dm, runner, calib>>

\* The parser rejects the next sub-frame: parse() throws, no callback fires.
ParseError ==
    /\ NextIs("bad")
    /\ pc' = process("thrown")
    /\ UNCHANGED <<m_config, m_heatmap, m_contacts, m_dft, m_cone, buf, pos, cur,
                   calls, events, last_sample, threw>>
    /\ UNCHANGED <<dm, runner, calib>>

\* The parser reaches the end of the buffer: parse() returns.
ParseEnd ==
    /\ pc = "parsing"
    /\ pos = Len(buf)
    /\ pc' = process("returned")
    /\ UNCHANGED <<m_config, m_heatmap, m_contacts, m_dft, m_cone, buf, pos, cur,
                   calls, events, last_sample, threw>>
    /\ UNCHANGED <<dm, runner, calib>>

\* The caller of process() takes the result and is ready for the next buffer.
Return ==
    /\ pc \in {"returned", "thrown"}
    /\ pc' = "idle"
    /\ threw' = (threw \/ pc = "thrown")
    /\ buf' = <<>>
    /\ pos' = 0
    /\ cur' = NoFrame
    /\ calls' = <<>>
    /\ events' = <<>>
    /\ UNCHANGED <<m_config, m_heatmap, m_contacts, m_dft, m_cone, last_sample>>
    /\ UNCHANGED <<dm, runner, calib>>

\* Whole buffers of every kind of sub-frame, in any order.
Next ==
    \/ Tick
    \/ \E b \in Buffers : Process(b)
    \/ OnStylus(StylusSamples)
    \/ OnDft
    \/ OnHeatmap({TouchedHeatmap}, PalmAndFingerLists)
    \/ ParseError
    \/ ParseEnd
    \/ Return

Spec == Init /\ [][Next]_vars

\* The palm pass: stylus and heatmap sub-frames, every contact list, and a
\* clock that lets the cone go stale.
NextPalm ==
    \/ Tick
    \/ \E b \in PalmBuffers : Process(b)
    \/ OnStylus(StylusSamples)
    \/ OnHeatmap(SmallHeatmaps, AllContactLists)
    \/ ParseEnd
    \/ Return

SpecPalm == Init /\ [][NextPalm]_vars

\* The heatmap path alone, over every frame range and cell value.
NextNorm ==
    \/ Process(<<"heatmap">>)
    \/ OnHeatmap(WideHeatmaps, UnclassifiedLists)
    \/ ParseEnd
    \/ Return

SpecNorm == Init /\ [][NextNorm]_vars

----------------------------------------------------------------------------
(* Construction of an Application (application.hpp: the constructor). *)

\* The configurations a caller may hand to a constructor: a screen dimension
\* may be zero.
AnyConfigs ==
    { [width |-> w, height |-> h, touch_check_cone |-> b] :
          w \in {0, 4}, h \in {0, 2}, b \in BOOLEAN }

config_invalid_BothZero(config) == config.width = 0 /\ config.height = 0

\* The test of the constructor: a screen dimension is zero.
config_invalid(config) == config.width = 0 \/ config.height = 0

\* Application::Application(config, info): throws std::runtime_error for a
\* zero screen dimension, and otherwise leaves an application ready for
\* process().
Construct ==
    /\ pc = "new"
    /\ pc' = IF config_invalid(m_config) THEN "ctor_failed" ELSE "idle"
    /\ UNCHANGED <<m_config, m_heatmap, m_contacts, m_dft, m_cone, buf, pos, cur,
                   calls, events, last_sample, threw>>
    /\ UNCHANGED <<dm, runner, calib>>

----------------------------------------------------------------------------
(* The daemon's devices (daemon/devices.cpp). *)

\* The largest stylus serial of the model; serials are 0 .. MaxSerial.
MaxSerial == 3

Serials == 0 .. MaxSerial

\* The length of the diagonal of the device coordinate range.
IPTS_DIAGONAL == 12000

INT_MAX == 2147483647
INT_MIN == (-INT_MAX) - 1

\* The values the conversion of an infinite f64 to i32 may produce: the
\* conversion is undefined, builds give the smallest or the largest i32, or 0.
UndefinedInts == {INT_MIN, 0, INT_MAX}

\* std::sqrt of a sum of squares, truncated by the conversion to i32.
ISqrt(n) == CHOOSE r \in 0 .. n : r * r <= n /\ n < (r + 1) * (r + 1)

\* std::round of n / d for n >= 0 and d > 0.
Round(n, d) == (2 * n + d) \div (2 * d)

\* res(virt, phys): (i32)std::round((f64)(virt * 10) / (f64)phys).  A phys of
\* zero divides by zero; the quotient is infinite and its conversion to i32
\* gives ub.
res(virt, phys, ub) == IF phys = 0 THEN ub ELSE Round(virt * 10, phys)

\* A call of res with these sizes divides by zero.
DividesByZero(conf) ==
    \/ conf.width = 0
    \/ conf.height = 0
    \/ ISqrt(conf.width * conf.width + conf.height * conf.height) = 0

\* StylusDevice::StylusDevice(conf): the resolutions, then create().
StylusDevice(conf, ub) ==
    [serial |-> 0,
     res_x |-> res(IPTS_MAX_X, conf.width, ub),
     res_y |-> res(IPTS_MAX_Y, conf.height, ub)]

\* TouchDevice::TouchDevice(conf): the resolutions, then create().
TouchDevice(conf, ub) ==
    [res_x |-> res(IPTS_MAX_X, conf.width, ub),
     res_y |-> res(IPTS_MAX_Y, conf.height, ub),
     res_d |-> res(IPTS_DIAGONAL,
                   ISqrt(conf.width * conf.width + conf.height * conf.height),
                   ub)]

\* The devices of styli that hold the serial.
Holders(styli, serial) == { i \in 1 .. Len(styli) : styli[i].serial = serial }

\* The smallest element of a non-empty set of numbers.
First(S) == CHOOSE i \in S : \A j \in S : i <= j

\* A new stylus device with the serial, appended to styli and made active.
WithNewStylus(m, serial, ub) ==
    [m EXCEPT !.styli = Append(@, [StylusDevice(m.conf, ub)
                                      EXCEPT !.serial = serial]),
              !.active_stylus = Len(m.styli) + 1,
              !.created = @ + 1]

switch_stylus_RenamesActive(m, serial, ub) ==
    IF Holders(m.styli, serial) # {}
    THEN [m EXCEPT !.active_stylus = First(Holders(m.styli, serial))]
    ELSE IF Len(m.styli) > 0
         THEN [m EXCEPT !.styli[m.active_stylus].serial = serial]
         ELSE WithNewStylus(m, serial, ub)

switch_stylus_KeepsActive(m, serial, ub) ==
    IF Holders(m.styli, serial) # {}
    THEN m
    ELSE IF Len(m.styli) > 0 /\ m.styli[m.active_stylus].serial = 0
         THEN [m EXCEPT !.styli[m.active_stylus].serial = serial]
         ELSE WithNewStylus(m, serial, ub)

switch_stylus_NoSearch(m, serial, ub) ==
    IF Len(m.styli) > 0 /\ m.styli[m.active_stylus].serial = 0
    THEN [m EXCEPT !.styli[m.active_stylus].serial = serial]
    ELSE WithNewStylus(m, serial, ub)

switch_stylus_RenamesFirst(m, serial, ub) ==
    IF Holders(m.styli, serial) # {}
    THEN [m EXCEPT !.active_stylus = First(Holders(m.styli, serial))]
    ELSE IF Len(m.styli) > 0 /\ m.styli[m.active_stylus].serial = 0
         THEN [m EXCEPT !.styli[1].serial = serial]
         ELSE WithNewStylus(m, serial, ub)

\* DeviceManager::switch_stylus(serial): the first device that holds the
\* serial becomes active; failing that, an active device of serial 0 takes the
\* serial; failing that, a new device is created, appended and made active.
switch_stylus(m, serial, ub) ==
    IF Holders(m.styli, serial) # {}
    THEN [m EXCEPT !.active_stylus = First(Holders(m.styli, serial))]
    ELSE IF Len(m.styli) > 0 /\ m.styli[m.active_stylus].serial = 0
         THEN [m EXCEPT !.styli[m.active_stylus].serial = serial]
         ELSE WithNewStylus(m, serial, ub)

\* A call of switch_stylus, with the record of the call kept beside the
\* manager: the serial passed, the devices and the active device before the
\* call, the serial of the call before, and whether two calls were made.
Switched(m, serial, ub) ==
    [switch_stylus(m, serial, ub)
         EXCEPT !.serial = serial,
                !.before = m.styli,
                !.before_active = m.active_stylus,
                !.before_serial = m.serial,
                !.switches = IF m.switches < 2 THEN m.switches + 1 ELSE 2]

\* DeviceManager::DeviceManager(conf): the member touch is initialised first,
\* then the body tests the screen size and throws, or selects serial 0.
DeviceManager(conf, ub) ==
    LET built == [NoManager EXCEPT !.conf = conf,
                                   !.touch = <<TouchDevice(conf, ub)>>,
                                   !.created = 1,
                                   !.div_by_zero = DividesByZero(conf)]
    IN  IF conf.width = 0 \/ conf.height = 0
        THEN [built EXCEPT !.state = "failed"]
        ELSE [Switched(built, 0, ub) EXCEPT !.state = "ready"]

\* The screen sizes a DeviceManager may be constructed with.
DmConfigs == { [width |-> w, height |-> h] : w \in {0, 4}, h \in {0, 2} }

ValidDmConfigs == { conf \in DmConfigs : conf.width # 0 /\ conf.height # 0 }

\* The daemon constructs its DeviceManager.
DmConstruct(confs) ==
    /\ dm.state = "none"
    /\ \E conf \in confs, ub \in UndefinedInts : dm' = DeviceManager(conf, ub)
    /\ UNCHANGED <<m_config, m_heatmap, m_contacts, m_dft, m_cone, pc, buf, pos,
                   cur, calls, events, last_sample, threw, runner, calib>>

\* A stylus sample with some serial arrives: switch_stylus(serial).
SwitchStylus ==
    /\ dm.state = "ready"
    /\ \E serial \in Serials, ub \in UndefinedInts :
          dm' = [Switched(dm, serial, ub) EXCEPT !.state = "ready"]
    /\ UNCHANGED <<m_config, m_heatmap, m_contacts, m_dft, m_cone, pc, buf, pos,
                   cur, calls, events, last_sample, threw, runner, calib>>

\* DeviceManager::~DeviceManager(): every stylus device is deleted.
Destroy ==
    /\ dm.state = "ready"
    /\ dm' = NoManager
    /\ UNCHANGED <<m_config, m_heatmap, m_contacts, m_dft, m_cone, pc, buf, pos,
                   cur, calls, events, last_sample, threw, runner, calib>>

\* An application about to be constructed, with any configuration.
InitCtor ==
    /\ m_config \in AnyConfigs
    /\ pc = "new"
    /\ InitMembers
    /\ dm = NoManager
    /\ runner = NoRunner
    /\ calib = NoSamples

\* Construction of an Application and of a DeviceManager with any screen
\* size, and stylus buffers for the application that was constructed.
NextCtor ==
    \/ Construct
    \/ Process(<<"stylus">>)
    \/ OnStylus(StylusSamples)
    \/ ParseEnd
    \/ Return
    \/ DmConstruct(DmConfigs)

SpecCtor == InitCtor /\ [][NextCtor]_vars

\* The life of a DeviceManager: construction, stylus switches, destruction.
NextDevices ==
    \/ DmConstruct(ValidDmConfigs)
    \/ SwitchStylus
    \/ Destroy

SpecDevices == Init /\ [][NextDevices]_vars

----------------------------------------------------------------------------
(* The runner loop (debug/calibrate.cpp: main).                            *)
(*                                                                         *)
(* runner.pc is "none" before the loop, "loop" at the loop test, "read" in *)
(* device.read, "parse" in parser.parse, "stopped" after set_mode(false).  *)
(* Beside the program's errors and should_exit the record keeps what the   *)
(* claims speak of: the device calls (mode_on, mode_off, last_call), why   *)
(* the loop ended, how the last iteration ended (last), errors when that   *)
(* iteration began, whether a read returned normally since an error was    *)
(* counted and the counter not reset (gap), whether a counted error was a  *)
(* read error (read_failed), and whether an iteration is under way.        *)

\* The number of counted errors at which the loop gives up.
ErrorLimit == 50

\* How device.read may end: it throws, or returns a report without or with
\* touch data.
ReadOutcomes == {"read_error", "non_touch", "touch"}

\* How parser.parse may end.
ParseOutcomes == {"parsed", "parse_error"}

\* errors = 0; device.set_mode(true); the loop is entered.
runner_start(r) ==
    [r EXCEPT !.pc = "loop", !.errors = 0, !.mode_on = @ + 1,
              !.last_call = "set_mode(true)"]

\* Leaving the loop: "Stopping", device.set_mode(false), return 0.
runner_stop(r, why) ==
    [r EXCEPT !.pc = "stopped", !.why = why, !.mode_off = @ + 1,
              !.last_call = "set_mode(false)"]

loop_test_ReturnsOnErrors(r) ==
    IF r.should_exit
    THEN runner_stop(r, "exit")
    ELSE IF r.errors >= ErrorLimit
         THEN [r EXCEPT !.pc = "stopped", !.why = "errors"]
         ELSE [r EXCEPT !.pc = "read", !.in_flight = TRUE,
                        !.errors_before = r.errors, !.last_call = "read"]

\* while (!should_exit) { if (errors >= 50) break; try { device.read ...
loop_test(r) ==
    IF r.should_exit
    THEN runner_stop(r, "exit")
    ELSE IF r.errors >= ErrorLimit
         THEN runner_stop(r, "errors")
         ELSE [r EXCEPT !.pc = "read", !.in_flight = TRUE,
                        !.errors_before = r.errors, !.last_call = "read"]

\* catch (std::exception &e) { errors++; continue; }
caught(r, how) ==
    [r EXCEPT !.pc = "loop", !.errors = @ + 1, !.last = how,
              !.in_flight = FALSE,
              !.read_failed = (@ \/ how = "read_error")]

\* device.read returned or threw; a report without touch data is skipped
\* with continue, one with touch data goes to the parser.
after_read(r, outcome) ==
    CASE outcome = "read_error" -> caught(r, "read_error")
      [] outcome = "non_touch" ->
            [r EXCEPT !.pc = "loop", !.last = "non_touch", !.in_flight = FALSE,
                      !.gap = (@ \/ r.errors > 0)]
      [] outcome = "touch" -> [r EXCEPT !.pc = "parse", !.last_call = "parse"]

after_parse_NotCounted(r, outcome) ==
    IF outcome = "parse_error"
    THEN [r EXCEPT !.pc = "loop", !.last = "parse_error", !.in_flight = FALSE]
    ELSE [r EXCEPT !.pc = "loop", !.errors = 0, !.last = "parsed",
                   !.in_flight = FALSE, !.gap = FALSE, !.read_failed = FALSE]

\* parser.parse threw into the catch, or returned and errors = 0 is reached.
after_parse(r, outcome) ==
    IF outcome = "parse_error"
    THEN caught(r, "parse_error")
    ELSE [r EXCEPT !.pc = "loop", !.errors = 0, !.last = "parsed",
                   !.in_flight = FALSE, !.gap = FALSE, !.read_failed = FALSE]

RunnerStart ==
    /\ runner.pc = "none"
    /\ runner' = runner_start(runner)
    /\ UNCHANGED <<m_config, m_heatmap, m_contacts, m_dft, m_cone, pc, buf, pos,
                   cur, calls, events, last_sample, threw, dm, calib>>

\* SIGTERM or SIGINT: the handler sets should_exit and does nothing else.
Signal ==
    /\ runner.pc \in {"loop", "read", "parse"}
    /\ ~runner.should_exit
    /\ runner' = [runner EXCEPT !.should_exit = TRUE]
    /\ UNCHANGED <<m_config, m_heatmap, m_contacts, m_dft, m_cone, pc, buf, pos,
                   cur, calls, events, last_sample, threw, dm, calib>>

LoopTest ==
    /\ runner.pc = "loop"
    /\ runner' = loop_test(runner)
    /\ UNCHANGED <<m_config, m_heatmap, m_contacts, m_dft, m_cone, pc, buf, pos,
                   cur, calls, events, last_sample, threw, dm, calib>>

Read ==
    /\ runner.pc = "read"
    /\ \E outcome \in ReadOutcomes : runner' = after_read(runner, outcome)
    /\ UNCHANGED <<m_config, m_heatmap, m_contacts, m_dft, m_cone, pc, buf, pos,
                   cur, calls, events, last_sample, threw, dm, calib>>

Parse ==
    /\ runner.pc = "parse"
    /\ \E outcome \in ParseOutcomes : runner' = after_parse(runner, outcome)
    /\ UNCHANGED <<m_config, m_heatmap, m_contacts, m_dft, m_cone, pc, buf, pos,
                   cur, calls, events, last_sample, threw, dm, calib>>

NextRunner ==
    \/ RunnerStart
    \/ Signal
    \/ LoopTest
    \/ Read
    \/ Parse

SpecRunner == Init /\ [][NextRunner]_vars

----------------------------------------------------------------------------
(* The calibration tool (debug/calibrate.cpp: iptsd_calibrate_handle_input). *)
(*                                                                         *)
(* calib.size and calib.aspect are the two global sample lists, kept as    *)
(* rationals; calib.stats holds the locals of the last call that got past  *)
(* the empty test.  Beside them the record keeps whether a frame has been  *)
(* handled and how many stable contacts the finder has returned so far.    *)

\* The largest number of samples the lists of the model grow to.
MaxSamples == 52

\* The screen of the calibration run: std::hypot(4, 3) is exactly 5.
CalibConfig == [width |-> 4, height |-> 3]

\* std::hypot for sizes whose hypotenuse is a whole number.
Hypot(w, h) == ISqrt(w * w + h * h)

\* The contacts the finder may return: stable or not, with the two
\* components of Contact::size.
CalibContacts ==
    { [stable |-> TRUE, size |-> <<2, 1>>],
      [stable |-> TRUE, size |-> <<1, 1>>],
      [stable |-> FALSE, size |-> <<2, 2>>] }

\* The contact lists of one frame.
CalibContactLists ==
    { <<>> } \cup { <<a>> : a \in CalibContacts }
             \cup { <<a, b>> : a \in CalibContacts, b \in CalibContacts }

maxCoeff(v) == IF v[1] >= v[2] THEN v[1] ELSE v[2]
minCoeff(v) == IF v[1] <= v[2] THEN v[1] ELSE v[2]

\* The loop of lines 53-59 over contacts[i..]: a stable contact appends one
\* sample to size and one to aspect.
RECURSIVE push_samples(_, _, _, _)
push_samples(c, contacts, config, i) ==
    IF i > Len(contacts) THEN c
    ELSE IF ~contacts[i].stable
    THEN push_samples(c, contacts, config, i + 1)
    ELSE push_samples(
             [c EXCEPT !.size = Append(@,
                           RInt(maxCoeff(contacts[i].size)
                                * Hypot(config.width, config.height))),
                       !.aspect = Append(@,
                           Rat(maxCoeff(contacts[i].size),
                               minCoeff(contacts[i].size)))],
             contacts, config, i + 1)

\* The sorted list with one more element.
RECURSIVE Insert(_, _)
Insert(s, x) ==
    IF s = <<>> THEN <<x>>
    ELSE IF RLeq(s[Len(s)], x) THEN Append(s, x)
    ELSE Append(Insert(SubSeq(s, 1, Len(s) - 1), x), s[Len(s)])

\* std::sort, ascending.
RECURSIVE Sort(_)
Sort(s) ==
    IF s = <<>> THEN <<>>
    ELSE Insert(Sort(SubSeq(s, 1, Len(s) - 1)), s[Len(s)])

\* container::ops::sum
RECURSIVE Sum(_)
Sum(s) == IF s = <<>> THEN RInt(0) ELSE RAdd(Sum(Tail(s)), Head(s))

percentile_index_OfSize(n, percent) == Round(n * percent, 100)

\* std::round(std::max(n - 1, 0.0) * percent / 100) as an index.
percentile_index(n, percent) ==
    Round((IF n - 1 > 0 THEN n - 1 ELSE 0) * percent, 100)

\* list[idx] of a std::vector: a read past the end is undefined.
At(list, idx) ==
    IF idx \in 0 .. Len(list) - 1 THEN list[idx + 1] ELSE "undefined"

\* Lines 61-78: nothing for empty lists; otherwise both lists are sorted and
\* the averages and the 1st and 99th percentile are read from them.
statistics(c) ==
    IF Len(c.size) = 0 THEN [c EXCEPT !.stats = NoStats]
    ELSE LET size == Sort(c.size)
             aspect == Sort(c.aspect)
             min_idx == percentile_index(Len(size), 1)
             max_idx == percentile_index(Len(size), 99)
         IN  [c EXCEPT !.size = size,
                       !.aspect = aspect,
                       !.stats = [computed |-> TRUE,
                                  n |-> Len(size),
                                  min_idx |-> min_idx,
                                  max_idx |-> max_idx,
                                  size_avg |-> RDiv(Sum(size), RInt(Len(size))),
                                  aspect_avg |-> RDiv(Sum(aspect),
                                                      RInt(Len(aspect))),
                                  size_min |-> At(size, min_idx),
                                  size_max |-> At(size, max_idx),
                                  aspect_min |-> At(aspect, min_idx),
                                  aspect_max |-> At(aspect, max_idx)]]

\* The stable contacts of a list.
Stable(contacts) == { i \in 1 .. Len(contacts) : contacts[i].stable }

\* iptsd_calibrate_handle_input(config, data, heatmap, contacts, finder),
\* given the list the finder returns.
iptsd_calibrate_handle_input(c, config, data, contacts) ==
    statistics(push_samples(
        [c EXCEPT !.heatmap = normalize(data),
                  !.handled = TRUE,
                  !.stable_seen = @ + Cardinality(Stable(contacts))],
        contacts, config, 1))

\* The parser hands a heatmap to the calibration handler.
CalibHeatmap ==
    /\ \E data \in SmallHeatmaps :
          \E contacts \in finder_find(normalize(data), CalibContactLists) :
              /\ Len(calib.size) + Cardinality(Stable(contacts)) <= MaxSamples
              /\ calib' = iptsd_calibrate_handle_input(calib, CalibConfig, data,
                                                        contacts)
    /\ UNCHANGED <<m_config, m_heatmap, m_contacts, m_dft, m_cone, pc, buf, pos,
                   cur, calls, events, last_sample, threw, dm, runner>>

NextCalib == CalibHeatmap

SpecCalib == Init /\ [][NextCalib]_vars

----------------------------------------------------------------------------
(* What the claims read off the state. *)

\* The calls of the last handler to the given operation, in order.
CallsOf(op) == SelectSeq(calls, LAMBDA c : c.op = op)

\* The list the finder returned to the last heatmap handler, and the list
\* that handler gave to on_contacts.
Found == CallsOf("find")[1].arg
Handed == CallsOf("on_contacts")[1].arg

\* The last sub-frame handled was a heatmap, and its handler called the
\* finder and the sink once each.
HeatmapHandled ==
    /\ cur.kind = "heatmap"
    /\ Len(CallsOf("find")) = 1
    /\ Len(CallsOf("on_contacts")) = 1

\* The palm gate: the cone is alive and active and touch_check_cone is set.
\* No handler changes any of the three, so the gate read after a handler is
\* the gate that handler saw.
GateOpen ==
    /\ m_cone.alive
    /\ m_cone.elapsed < StylusActiveTimeout
    /\ m_config.touch_check_cone

\* The physical position of a contact: mean.x * width, mean.y * height.
PhysX(contact) == Rat(contact.mean_x.n * m_config.width, contact.mean_x.d)
PhysY(contact) == Rat(contact.mean_y.n * m_config.height, contact.mean_y.d)

\* C1: when the palm gate is bypassed (cone not alive, or not active, or
\* touch_check_cone false), the list handed to on_contacts has the validities
\* the finder returned, and the frame calls neither cone.update_direction nor
\* cone.check.
C1_BypassedPalmPassIsNoOp ==
    (cur.kind = "heatmap" /\ ~GateOpen) =>
        /\ HeatmapHandled
        /\ Len(Handed) = Len(Found)
        /\ \A i \in 1..Len(Found) : Handed[i].valid = Found[i].valid
        /\ CallsOf("update_direction") = <<>>
        /\ CallsOf("check") = <<>>

\* C1 happens: touch_check_cone is off while the cone is alive and active,
\* and a list with an unclassified contact and a palm went through.
C1_Witness ==
    /\ HeatmapHandled
    /\ m_cone.alive
    /\ m_cone.elapsed < StylusActiveTimeout
    /\ ~m_config.touch_check_cone
    /\ \E i, j \in 1..Len(Handed) :
          Handed[i].valid = "null" /\ Handed[j].valid = "false"

\* C2: when the palm gate is open, every contact the finder returned as null
\* or true leaves the pass with the verdict of cone.check at its physical
\* position (so none is null), and every contact returned as false is still
\* false.
C2_OpenPalmPassClassifies ==
    (cur.kind = "heatmap" /\ GateOpen) =>
        /\ HeatmapHandled
        /\ Len(Handed) = Len(Found)
        /\ \A i \in 1..Len(Found) :
              IF Found[i].valid = "false"
              THEN Handed[i].valid = "false"
              ELSE /\ Handed[i].valid # "null"
                   /\ (Handed[i].valid = "true")
                        = cone_check(m_cone, PhysX(Found[i]), PhysY(Found[i]))

\* C2 happens: a contact the finder held valid is turned into a palm by the
\* cone, next to one the finder had already flagged.
C2_Witness ==
    /\ HeatmapHandled
    /\ GateOpen
    /\ \E i, j \in 1..Len(Found) :
          /\ Found[i].valid = "true"
          /\ Handed[i].valid = "false"
          /\ Found[j].valid = "false"

\* The positions of the known-false contacts of a list, in order.
RECURSIVE PalmPositions(_)
PalmPositions(list) ==
    IF list = <<>> THEN <<>>
    ELSE (IF Head(list).valid = "false"
          THEN << <<PhysX(Head(list)), PhysY(Head(list))>> >>
          ELSE <<>>)
         \o PalmPositions(Tail(list))

\* C3: when the palm gate is open, cone.update_direction is called once for
\* each contact the finder returned as false, with its physical position, in
\* list order, and for no other contact.
C3_DirectionFedByPalmsOnly ==
    (cur.kind = "heatmap" /\ GateOpen) =>
        /\ HeatmapHandled
        /\ [i \in 1..Len(CallsOf("update_direction")) |->
               <<CallsOf("update_direction")[i].x, CallsOf("update_direction")[i].y>>]
             = PalmPositions(Found)

\* C3 happens: a list with a palm and an unclassified contact caused exactly
\* one update of the direction.
C3_Witness ==
    /\ HeatmapHandled
    /\ GateOpen
    /\ Len(CallsOf("update_direction")) = 1
    /\ \E i, j \in 1..Len(Found) :
          Found[i].valid = "false" /\ Found[j].valid = "null"

\* The sink a sub-frame of the given kind ends in.
ExpectedSink(kind) == IF kind = "heatmap" THEN "on_contacts" ELSE "on_stylus"

\* The sink callbacks owed to the first n sub-frames of the buffer.
ExpectedEvents(n) == [i \in 1..n |-> ExpectedSink(buf[i])]

\* A stylus sample in physical coordinates: x / IPTS_MAX_X * width and
\* y / IPTS_MAX_Y * height.
SamplePhysX(sample) == Rat(sample.x * m_config.width, IPTS_MAX_X)
SamplePhysY(sample) == Rat(sample.y * m_config.height, IPTS_MAX_Y)

\* C4: the handlers run in the order of the sub-frames in the buffer; the
\* cone origin is the position of the last stylus or DFT sub-frame decoded,
\* in this buffer or an earlier one, and the verdicts of a heatmap sub-frame
\* are those of the cone at that origin: a sub-frame further on in the buffer
\* has no part in them.
C4_HeatmapSeesLastPrecedingStylus ==
    /\ events = ExpectedEvents(pos)
    /\ m_cone.alive =>
          /\ m_cone.x = SamplePhysX(last_sample)
          /\ m_cone.y = SamplePhysY(last_sample)
    /\ (cur.kind = "heatmap" /\ GateOpen) =>
          /\ HeatmapHandled
          /\ Len(Handed) = Len(Found)
          /\ \A i \in 1..Len(Found) :
                Found[i].valid # "false" =>
                    (Handed[i].valid = "true")
                      = cone_check([m_cone EXCEPT !.x = SamplePhysX(last_sample),
                                                  !.y = SamplePhysY(last_sample)],
                                   PhysX(Found[i]), PhysY(Found[i]))

\* C4 happens: a heatmap sub-frame right after a stylus sub-frame of the same
\* buffer has a contact rejected by the cone at that stylus position.
C4_Witness ==
    /\ HeatmapHandled
    /\ GateOpen
    /\ pos = 2
    /\ buf[1] = "stylus"
    /\ \E i \in 1..Len(Found) :
          Found[i].valid = "null" /\ Handed[i].valid = "false"

\* C5: when parse() throws at a sub-frame, the sinks of all sub-frames before
\* it have fired and none after; what those handlers did to the cone and the
\* contact list stands; process() throws too, and returns normally only from
\* a buffer it went through to the end.
C5_ParseErrorKeepsEarlierFrames ==
    /\ pc = "thrown" =>
          /\ pos < Len(buf)
          /\ buf[pos + 1] = "bad"
          /\ events = ExpectedEvents(pos)
          /\ cur.kind = "heatmap" => (HeatmapHandled /\ m_contacts = Handed)
          /\ cur.kind \in {"stylus", "dft"} =>
                /\ m_cone.alive
                /\ m_cone.x = SamplePhysX(last_sample)
                /\ m_cone.y = SamplePhysY(last_sample)
    /\ pc = "returned" =>
          /\ pos = Len(buf)
          /\ \A i \in 1..Len(buf) : buf[i] # "bad"
          /\ events = ExpectedEvents(Len(buf))

\* C5 happens: a buffer fails at its second sub-frame after its stylus
\* sub-frame was delivered, in an application that had a failure before.
C5_Witness ==
    /\ pc = "thrown"
    /\ threw
    /\ pos = 1
    /\ events = <<"on_stylus">>
    /\ m_cone.alive

\* The operations of a call sequence.
Ops(cs) == [i \in 1..Len(cs) |-> cs[i].op]

\* C6: the handler of a heatmap sub-frame normalises, then calls the finder,
\* then runs the palm pass, then calls on_contacts, once, with the contact
\* list as the palm pass left it; one on_contacts per heatmap sub-frame.
C6_HeatmapPipelineOrder ==
    /\ cur.kind = "heatmap" =>
          /\ Len(calls) >= 3
          /\ calls[1].op = "normalize"
          /\ calls[1].arg = <<cur.data>>
          /\ calls[2].op = "find"
          /\ \A i \in 3..(Len(calls) - 1) :
                calls[i].op \in {"update_direction", "check"}
          /\ calls[Len(calls)].op = "on_contacts"
          /\ calls[Len(calls)].arg = m_contacts
    /\ Len(SelectSeq(events, LAMBDA e : e = "on_contacts"))
         = Len(SelectSeq(SubSeq(buf, 1, pos), LAMBDA k : k = "heatmap"))

\* C6 happens: the second heatmap sub-frame of a buffer went through a palm
\* pass that updated the direction and checked a contact.
C6_Witness ==
    /\ cur.kind = "heatmap"
    /\ events = <<"on_contacts", "on_contacts">>
    /\ Ops(calls) = <<"normalize", "find", "update_direction", "check", "on_contacts">>

\* C7: the handler of a stylus sample calls cone.update_position once, with
\* (x / IPTS_MAX_X * width, y / IPTS_MAX_Y * height), and then on_stylus once,
\* with the sample as decoded; the cone is alive afterwards.
C7_StylusUpdatesConeThenSink ==
    cur.kind = "stylus" =>
        /\ calls = <<Call("update_position", SamplePhysX(cur.data),
                          SamplePhysY(cur.data), <<>>),
                     Call("on_stylus", RInt(0), RInt(0), <<cur.data>>)>>
        /\ m_cone.alive
        /\ m_cone.x = SamplePhysX(cur.data)
        /\ m_cone.y = SamplePhysY(cur.data)

\* C7 happens: a sample away from the corner was handled; the cone sits at
\* its physical position (4, 1).
C7_Witness ==
    /\ cur.kind = "stylus"
    /\ cur.data.x = IPTS_MAX_X
    /\ m_cone.x = RInt(4)
    /\ m_cone.y = RInt(1)
    /\ Len(calls) = 2

\* C8: the handler of a DFT window, with or without signal, calls dft.input
\* once and then goes once through the stylus path with dft.get_stylus(): one
\* cone.update_position, which restarts the cone's clock, and one on_stylus.
C8_DftAlwaysForwardsStylus ==
    cur.kind = "dft" =>
        /\ calls = <<Call("dft_input", RInt(0), RInt(0), <<cur.data>>),
                     Call("update_position", SamplePhysX(m_dft),
                          SamplePhysY(m_dft), <<>>),
                     Call("on_stylus", RInt(0), RInt(0), <<m_dft>>)>>
        /\ m_cone.alive
        /\ m_cone.elapsed = 0

\* C8 happens: a window without signal was handled after one with signal, so
\* the stylus forwarded is the retained pose with in-range cleared.
C8_Witness ==
    /\ cur.kind = "dft"
    /\ ~cur.data.signal
    /\ m_dft.x = 4800
    /\ ~m_dft.inrange
    /\ Ops(calls) = <<"dft_input", "update_position", "on_stylus">>

\* C9: every cell of the normalised heatmap lies in [0, 1], also when a raw
\* cell lies outside [z_min, z_max]. Stated for the frames with z_min < z_max;
\* those with z_max = z_min are the case of C10.
C9_NormalizedInUnitRange ==
    (cur.kind = "heatmap" /\ cur.data.z_min < cur.data.z_max) =>
        \A i \in 1..Len(m_heatmap.cells) : FInUnitRange(m_heatmap.cells[i])

\* C10: a frame with z_max = z_min is normalised to zeros in every cell and
\* yields no contact.
C10_DegenerateRangeGivesZeros ==
    (cur.kind = "heatmap" /\ cur.data.z_max = cur.data.z_min) =>
        /\ \A i \in 1..Len(m_heatmap.cells) : FIsZero(m_heatmap.cells[i])
        /\ m_contacts = <<>>

----------------------------------------------------------------------------
(* Construction with a zero screen dimension. *)

\* Claim C11: constructing an Application or a DeviceManager with width = 0
\* or height = 0 always fails, constructing one with both non-zero never
\* fails for that reason, and no application with a zero screen dimension
\* ever processes a buffer.
C11_ZeroSizeFailsConstruction ==
    /\ pc = "ctor_failed" => (m_config.width = 0 \/ m_config.height = 0)
    /\ pc \notin {"new", "ctor_failed"} =>
          (m_config.width # 0 /\ m_config.height # 0)
    /\ dm.state = "failed" => (dm.conf.width = 0 \/ dm.conf.height = 0)
    /\ dm.state = "ready" => (dm.conf.width # 0 /\ dm.conf.height # 0)

C11_Witness ==
    /\ pc = "ctor_failed"
    /\ m_config.width = 0
    /\ m_config.height # 0
    /\ dm.state = "failed"
    /\ dm.conf.width # 0
    /\ dm.conf.height = 0

----------------------------------------------------------------------------
(* The runner loop. *)

\* The loop ended because of the error limit.
Aborted == runner.pc = "stopped" /\ runner.why = "errors"

\* Claim C12: the loop ends on errors only after 50 consecutive failing
\* iterations: every iteration whose device.read returns without raising,
\* with or without touch data in the report, resets the error counter to 0.
C12_SuccessfulReadResetsErrors ==
    /\ runner.last \in {"non_touch", "parsed"} => runner.errors = 0
    /\ Aborted => ~runner.gap

\* Claim C13, as stated: a parse failure is not counted towards the error
\* limit, so malformed buffers alone never end the loop.
C13_ParseErrorsNotCounted ==
    /\ runner.last = "parse_error" /\ ~runner.in_flight =>
          runner.errors = runner.errors_before
    /\ Aborted => runner.read_failed

\* Claim C13, amended: a parse failure aborts only its buffer but is counted
\* like a read error: it adds one to the error counter, and the loop ends on
\* errors exactly when the counter has reached the limit of 50.
C13_ParseErrorsCounted ==
    /\ runner.last = "parse_error" /\ ~runner.in_flight =>
          runner.errors = runner.errors_before + 1
    /\ runner.last = "parse_error" /\ runner.pc = "read" =>
          runner.errors_before < ErrorLimit
    /\ Aborted => runner.errors = ErrorLimit

C13_Witness ==
    /\ Aborted
    /\ ~runner.read_failed
    /\ runner.last = "parse_error"

\* Claim C16: the exit flag and the error limit are examined only between
\* iterations, so an iteration under way is completed; and after every exit
\* of the loop set_mode(false) is called exactly once, after set_mode(true),
\* and is the last device call.
C16_CooperativeStop ==
    /\ runner.mode_on <= 1
    /\ runner.mode_off <= 1
    /\ runner.pc = "stopped" =>
          /\ runner.mode_on = 1
          /\ runner.mode_off = 1
          /\ runner.last_call = "set_mode(false)"
          /\ ~runner.in_flight
    /\ runner.pc \in {"loop", "read", "parse"} =>
          runner.mode_on = 1 /\ runner.mode_off = 0
    /\ runner.in_flight <=> runner.pc \in {"read", "parse"}

C16_Witness ==
    /\ runner.pc = "stopped"
    /\ runner.why = "exit"
    /\ runner.last = "parsed"
    /\ runner.errors_before > 0

----------------------------------------------------------------------------
(* The stylus devices of the DeviceManager. *)

\* Two calls of switch_stylus have been made, the last two with different
\* serials.
TwoSerials ==
    /\ dm.state = "ready"
    /\ dm.switches = 2
    /\ dm.before_serial # dm.serial

\* Claim C14, as stated: for any two different serials a and b, after
\* switch_stylus(a) and then switch_stylus(b) the active stylus is another
\* device than the one that was active after switch_stylus(a).
C14_DifferentSerialsDifferentDevices ==
    TwoSerials => dm.active_stylus # dm.before_active

\* Claim C14, amended: that holds for every a other than 0; after
\* switch_stylus(0), a switch_stylus(b) for a serial b that no device holds
\* keeps the same device active and gives it the serial b.
C14_NonZeroSerialsDifferentDevices ==
    /\ TwoSerials /\ dm.before_serial # 0 =>
          dm.active_stylus # dm.before_active
    /\ TwoSerials /\ dm.before_serial = 0 /\ Holders(dm.before, dm.serial) = {} =>
          /\ dm.active_stylus = dm.before_active
          /\ dm.styli[dm.active_stylus].serial = dm.serial
          /\ Len(dm.styli) = Len(dm.before)

C14_Witness ==
    /\ TwoSerials
    /\ dm.before_serial = 1
    /\ dm.serial = 2
    /\ dm.active_stylus # dm.before_active
    /\ Len(dm.styli) > Len(dm.before)

\* Claim C15: in a frame whose palm gate is open, every update_direction
\* call of pass 1 precedes the first cone.check of pass 2; every check gives
\* the verdict of the cone as all known-false contacts of the frame left it,
\* wherever they stand in the list; and a contact that pass 2 sets to false
\* feeds no update_direction in that frame.
C15_DirectionPassPrecedesCheckPass ==
    (cur.kind = "heatmap" /\ GateOpen) =>
        /\ HeatmapHandled
        /\ \A i, j \in 1..Len(calls) :
              calls[i].op = "update_direction" /\ calls[j].op = "check" => i < j
        /\ \A i, j \in 1..Len(Found) :
              (i < j /\ Found[i].valid # "false" /\ Found[j].valid = "false") =>
                  (Handed[i].valid = "true")
                     = cone_check(m_cone, PhysX(Found[i]), PhysY(Found[i]))
        /\ Len(CallsOf("update_direction"))
             = Cardinality({ i \in 1..Len(Found) : Found[i].valid = "false" })
        /\ Len(CallsOf("check"))
             = Cardinality({ i \in 1..Len(Found) : Found[i].valid # "false" })

\* C15 happens: an unclassified contact stands before a palm in the list, the
\* direction was updated once and the check that followed made the contact a
\* palm.
C15_Witness ==
    /\ HeatmapHandled
    /\ GateOpen
    /\ Len(Found) = 2
    /\ Found[1].valid = "null"
    /\ Found[2].valid = "false"
    /\ Handed[1].valid = "false"
    /\ Ops(CallsOf("update_direction") \o CallsOf("check"))
         = <<"update_direction", "check">>

\* Claim C17: a DeviceManager constructed with width = 0 or height = 0 throws
\* before any sink device is set up: create() has not been called and no
\* resolution has been computed by a division by a zero size.
C17_ZeroSizeThrowsBeforeDevices ==
    dm.state = "failed" =>
        /\ dm.created = 0
        /\ ~dm.div_by_zero
        /\ dm.touch = <<>>

\* Claim C18: after construction and after every switch_stylus(serial) the
\* active stylus is one device of styli, and its serial is the serial of the
\* most recent call: 0 right after construction.
C18_ActiveStylusHoldsLastSerial ==
    dm.state = "ready" =>
        /\ dm.active_stylus \in 1 .. Len(dm.styli)
        /\ dm.styli[dm.active_stylus].serial = dm.serial
        /\ dm.switches = 1 => dm.serial = 0 /\ Len(dm.styli) = 1

C18_Witness ==
    /\ dm.state = "ready"
    /\ Len(dm.styli) = 3
    /\ dm.active_stylus = 2
    /\ dm.before_active = 3
    /\ dm.serial # 0

\* Claim C19: no two devices of styli hold the same serial, and a call of
\* switch_stylus with a serial that a device holds creates no device and
\* changes no serial.
C19_SerialsAreUnique ==
    dm.state = "ready" =>
        /\ \A i, j \in 1 .. Len(dm.styli) :
              dm.styli[i].serial = dm.styli[j].serial => i = j
        /\ Holders(dm.before, dm.serial) # {} =>
              /\ dm.styli = dm.before
              /\ dm.created = 1 + Len(dm.before)

C19_Witness ==
    /\ dm.state = "ready"
    /\ Holders(dm.before, dm.serial) # {}
    /\ dm.active_stylus # dm.before_active
    /\ Len(dm.styli) = MaxSerial + 1

\* Claim C20: a device's serial changes only from 0 to a non-zero serial; a
\* device is created only when no device holds the serial and the active
\* stylus has a non-zero serial or no device exists; and the number of
\* devices never decreases.
C20_SerialsKeptDevicesKept ==
    dm.state = "ready" =>
        /\ Len(dm.styli) >= Len(dm.before)
        /\ Len(dm.styli) <= Len(dm.before) + 1
        /\ \A i \in 1 .. Len(dm.before) :
              dm.styli[i].serial # dm.before[i].serial =>
                  dm.before[i].serial = 0 /\ dm.styli[i].serial # 0
        /\ Len(dm.styli) > Len(dm.before) =>
              /\ Holders(dm.before, dm.serial) = {}
              /\ \/ dm.before = <<>>
                 \/ dm.before[dm.before_active].serial # 0
        /\ dm.created = 1 + Len(dm.styli)

C20_Witness ==
    /\ dm.state = "ready"
    /\ Len(dm.before) = 2
    /\ dm.before[2].serial = 0
    /\ dm.styli[2].serial # 0
    /\ dm.styli[1] = dm.before[1]

----------------------------------------------------------------------------
(* The calibration samples. *)

\* Claim C21: after any sequence of heatmap frames, size and aspect have the
\* same length n, one entry for each stable contact observed; statistics are
\* computed only when n >= 1; and the percentile indices round(0.01 * (n-1))
\* and round(0.99 * (n-1)) used to read both lists lie in 0 .. n-1.
C21_SampleListsAndPercentiles ==
    /\ Len(calib.size) = Len(calib.aspect)
    /\ Len(calib.size) = calib.stable_seen
    /\ calib.handled => (calib.stats.computed <=> Len(calib.size) >= 1)
    /\ calib.stats.computed =>
          /\ calib.stats.n = Len(calib.size)
          /\ calib.stats.n >= 1
          /\ calib.stats.min_idx \in 0 .. calib.stats.n - 1
          /\ calib.stats.max_idx \in 0 .. calib.stats.n - 1
          /\ calib.stats.min_idx <= calib.stats.max_idx
          /\ 100 * calib.stats.min_idx - 50 <= calib.stats.n - 1
          /\ calib.stats.n - 1 < 100 * calib.stats.min_idx + 50
          /\ 100 * calib.stats.max_idx - 50 <= 99 * (calib.stats.n - 1)
          /\ 99 * (calib.stats.n - 1) < 100 * calib.stats.max_idx + 50
          /\ calib.stats.size_min = calib.size[calib.stats.min_idx + 1]
          /\ calib.stats.size_max = calib.size[calib.stats.max_idx + 1]
          /\ calib.stats.aspect_min = calib.aspect[calib.stats.min_idx + 1]
          /\ calib.stats.aspect_max = calib.aspect[calib.stats.max_idx + 1]

\* C21 happens: with 51 samples the 1st percentile is read at index 1 and the
\* 99th at index 50, and the two differ in both lists.
C21_Witness ==
    /\ calib.stats.computed
    /\ calib.stats.n = 51
    /\ calib.stats.min_idx = 1
    /\ calib.stats.max_idx = 50
    /\ calib.stats.size_min # calib.stats.size_max
    /\ calib.stats.aspect_min # calib.stats.aspect_max

====
